---- MODULE Spec2Model ----
(***************************************************************************)
(* Model of src/app.py: the FAOSTAT explorer.  Three parts of the script   *)
(* are modelled, each with its own specification:                          *)
(*   SpecPick   pick_column                       (app.py 378-382)         *)
(*   Spec       the uploaded-dataset analysis     (app.py 373-518)         *)
(*   SpecFetch  the Fetch Data handler and cache  (app.py 155-240)         *)
(* Numbers are exact: a float the script computes is kept as a rational    *)
(* (num/den), so that comparisons against thresholds are exact.            *)
(***************************************************************************)
EXTENDS Integers, Sequences, FiniteSets, TLC

VARIABLES
  \* ---- pick_column call (SpecPick)
  pk_pc, pk_columns, pk_candidates, pk_result,
  \* ---- uploaded dataset analysis (Spec)
  pc, upload_df, question, year_col, value_col, trend_group, change_pct,
  volatility, trend_direction, shown, recommendations, answer, exc,
  \* ---- fetch handler (SpecFetch)
  selection, cache, session_state

pk_vars == <<pk_pc, pk_columns, pk_candidates, pk_result>>
up_vars == <<pc, upload_df, question, year_col, value_col, trend_group,
             change_pct, volatility, trend_direction, shown,
             recommendations, answer, exc>>
fe_vars == <<selection, cache, session_state>>
vars == <<pk_vars, up_vars, fe_vars>>

\* Python's None where a column name is expected.
NoneCol == "<None>"

(***************************************************************************)
(* pick_column                                                             *)
(***************************************************************************)

\* Mutant of InColumns: the match ignores case.
FoldCase(name) ==
  CASE name \in {"Year", "year", "YEAR", "yEAR"} -> "year"
    [] name = "Years" -> "years"
    [] OTHER -> name
InColumnsIgnoreCase(name, columns) ==
  \E c \in columns : FoldCase(c) = FoldCase(name)

\* `name in columns` on a pandas Index: exact label equality.
InColumns(name, columns) == name \in columns

\* for name in candidates: if name in columns: return name / return None
RECURSIVE pick_column(_, _)
pick_column(columns, candidates) ==
  IF candidates = <<>> THEN NoneCol
  ELSE IF InColumns(Head(candidates), columns) THEN Head(candidates)
  ELSE pick_column(columns, Tail(candidates))

YearCandidates == <<"Year", "year", "YEAR">>
ValueCandidates == <<"Value", "value", "VALUE">>

\* ---- bounded inputs of SpecPick
MaxCandidates == 3
ColumnNames == {"Year", "year", "YEAR", "Years", "yEAR", "Value"}
CandidateNames == {"Year", "year", "YEAR", "Value"}
CandidateLists ==
  UNION {[1..n -> CandidateNames] : n \in 0..MaxCandidates}

(***************************************************************************)
(* Uploaded dataset: a two-column frame.  A cell read by pd.read_csv is a  *)
(* number, a text that is no number, or missing.                           *)
(***************************************************************************)
Num(n) == [k |-> "num", n |-> n]
Text == [k |-> "text", n |-> 0]
Missing == [k |-> "missing", n |-> 0]
NaN == [k |-> "nan", n |-> 0]

\* A float or None/NaN the script holds: kind "None", "NaN" or "Num" (num/den).
NoneM == [kind |-> "None", num |-> 0, den |-> 1]
NaNM == [kind |-> "NaN", num |-> 0, den |-> 1]
Rat(n, d) == IF d < 0 THEN [kind |-> "Num", num |-> -n, den |-> -d]
             ELSE [kind |-> "Num", num |-> n, den |-> d]

\* upload_df[name]: the cells of the column labelled name.
ColIndex(df, name) == CHOOSE i \in 1..Len(df.columns) : df.columns[i] = name
Column(df, name) ==
  [i \in 1..Len(df.rows) |-> df.rows[i][ColIndex(df, name)]]

\* pd.to_numeric(series, errors="coerce"): what is no number becomes NaN.
to_numeric(series) ==
  [i \in 1..Len(series) |-> IF series[i].k = "num" THEN series[i] ELSE NaN]

\* trend_df after both coercions and .dropna(): the rows with no NaN,
\* as <<year, value>> pairs of numbers, in file order.
RECURSIVE DropNa(_, _)
DropNa(ys, vs) ==
  IF ys = <<>> THEN <<>>
  ELSE IF Head(ys).k = "nan" \/ Head(vs).k = "nan"
       THEN DropNa(Tail(ys), Tail(vs))
       ELSE <<<<Head(ys).n, Head(vs).n>>>> \o DropNa(Tail(ys), Tail(vs))

TrendDf(df, ycol, vcol) ==
  DropNa(to_numeric(Column(df, ycol)), to_numeric(Column(df, vcol)))

\* groupby(year_col, as_index=False)[value_col].sum(): one row per key, keys
\* ascending (groupby sorts its keys), each with the sum of its group.
RECURSIVE GroupTotal(_, _)
GroupTotal(tdf, y) ==
  IF tdf = <<>> THEN 0
  ELSE (IF Head(tdf)[1] = y THEN Head(tdf)[2] ELSE 0) + GroupTotal(Tail(tdf), y)

RECURSIVE AscendingKeys(_)
AscendingKeys(S) ==
  IF S = {} THEN <<>>
  ELSE LET m == CHOOSE x \in S : \A y \in S : x <= y
       IN <<m>> \o AscendingKeys(S \ {m})

\* Mutant of GroupBySum: each group keeps its first value (.first(), not .sum()).
GroupByFirst(tdf) ==
  LET ks == AscendingKeys({tdf[i][1] : i \in DOMAIN tdf})
  IN [i \in 1..Len(ks) |->
        <<ks[i], tdf[CHOOSE j \in DOMAIN tdf :
                       /\ tdf[j][1] = ks[i]
                       /\ \A l \in 1..(j - 1) : tdf[l][1] # ks[i]][2]>>]

GroupBySum(tdf) ==
  LET ks == AscendingKeys({tdf[i][1] : i \in DOMAIN tdf})
  IN [i \in 1..Len(ks) |-> <<ks[i], GroupTotal(tdf, ks[i])>>]

\* .sort_values(year_col): a stable sort, ascending by the year.
RECURSIVE InsertByYear(_, _)
InsertByYear(row, sorted) ==
  IF sorted = <<>> THEN <<row>>
  ELSE IF row[1] < Head(sorted)[1] THEN <<row>> \o sorted
  ELSE <<Head(sorted)>> \o InsertByYear(row, Tail(sorted))

RECURSIVE SortValues(_)
SortValues(frame) ==
  IF frame = <<>> THEN <<>>
  ELSE InsertByYear(frame[Len(frame)], SortValues(SubSeq(frame, 1, Len(frame) - 1)))

TrendGroup(tdf) == SortValues(GroupBySum(tdf))

\* Mutant of ChangePct: a zero first value gives 0 instead of None.
ChangePctZeroDefault(first_value, last_value) ==
  IF first_value # 0
  THEN Rat((last_value - first_value) * 100, first_value)
  ELSE Rat(0, 1)

\* change_pct = ((last_value - first_value) / first_value) * 100, or None.
ChangePct(first_value, last_value) ==
  IF first_value # 0
  THEN Rat((last_value - first_value) * 100, first_value)
  ELSE NoneM

\* Series.pct_change(): NaN first, then cur/prev - 1 (inf or NaN on prev = 0).
PctChange(values) ==
  [i \in 1..Len(values) |->
     IF i = 1 THEN NaNM
     ELSE IF values[i - 1] # 0 THEN Rat(values[i] - values[i - 1], values[i - 1])
     ELSE IF values[i] = 0 THEN NaNM
     ELSE [kind |-> "Inf", num |-> values[i], den |-> 1]]

RECURSIVE Gcd(_, _)
Gcd(a, b) == IF b = 0 THEN a ELSE Gcd(b, a % b)
Lcm(a, b) == (a * b) \div Gcd(a, b)

RECURSIVE LcmDen(_)
LcmDen(rs) == IF rs = <<>> THEN 1 ELSE Lcm(Head(rs).den, LcmDen(Tail(rs)))
RECURSIVE SumScaled(_, _)
SumScaled(rs, L) ==
  IF rs = <<>> THEN 0
  ELSE Head(rs).num * (L \div Head(rs).den) + SumScaled(Tail(rs), L)
RECURSIVE SumSqScaled(_, _)
SumSqScaled(rs, L) ==
  IF rs = <<>> THEN 0
  ELSE LET a == Head(rs).num * (L \div Head(rs).den)
       IN a * a + SumSqScaled(Tail(rs), L)

\* Mutant of StdSquared: the population deviation (ddof = 0).
StdSquaredPopulation(changes) ==
  LET valid == SelectSeq(changes, LAMBDA c : c.kind # "NaN")
      n == Len(valid)
  IN IF n < 1 THEN NaNM
     ELSE IF \E i \in 1..n : valid[i].kind = "Inf" THEN NaNM
     ELSE LET L == LcmDen(valid)
              s == SumScaled(valid, L)
              q == SumSqScaled(valid, L)
          IN Rat(n * q - s * s, n * n * L * L)

\* Series.std() (skipna, ddof = 1) as its square, the sample variance:
\* NaN with fewer than 2 values left or with an infinite one.
StdSquared(changes) ==
  LET valid == SelectSeq(changes, LAMBDA c : c.kind # "NaN")
      n == Len(valid)
  IN IF n < 2 THEN NaNM
     ELSE IF \E i \in 1..n : valid[i].kind = "Inf" THEN NaNM
     ELSE LET L == LcmDen(valid)
              s == SumScaled(valid, L)
              q == SumSqScaled(valid, L)
          IN Rat(n * q - s * s, n * (n - 1) * L * L)

\* volatility = pct_change().std() * 100.  The record holds (volatility/100)^2,
\* so that the threshold tests below need no square root.
Volatility(values) == StdSquared(PctChange(values))

\* pd.notna(volatility) and the tests volatility > 20, volatility < 5:
\* (v/100)^2 > 1/25 and (v/100)^2 < 1/400, on integers.
NotNa(m) == m.kind = "Num"
VolAbove20(m) == m.num > m.den \div 25
VolBelow5(m) == m.num <= (m.den - 1) \div 400

\* change_pct > k and change_pct < k for an integer k (den > 0).
RatGt(m, k) == m.num > k * m.den
RatLt(m, k) == m.num < k * m.den

\* f"{x:.1f}": the number in tenths, rounded to the nearest tenth.
Fmt1f(m) == [kind |-> "Tenths", num |-> (20 * m.num + m.den) \div (2 * m.den), den |-> 1]

\* f"{x:,.2f}": the number in hundredths; NaN prints as "nan".
Fmt2f(m) ==
  IF m.kind = "NaN" THEN m
  ELSE [kind |-> "Hundredths", num |-> (200 * m.num + m.den) \div (2 * m.den), den |-> 1]

(***************************************************************************)
(* Trend Analysis (app.py 384-385, 403-452)                                *)
(***************************************************************************)
WarnNoNumeric == "Year/Value columns found but contain no usable numeric data."
WarnNotFound == "Year/Value columns not found. Trend analysis skipped."

Line(tag, text, val) == [tag |-> tag, text |-> text, val |-> val]

\* trend_direction = "increasing" if last_value >= first_value else "decreasing"
TrendDirection(first_value, last_value) ==
  IF last_value >= first_value THEN "increasing" ELSE "decreasing"

\* The lines st.markdown prints when a trend series exists (app.py 426-433).
TrendLines(direction, cp, vol) ==
  <<Line("trend", direction, NoneM)>>
  \o (IF cp.kind # "None" THEN <<Line("overall_change", "", Fmt1f(cp))>> ELSE <<>>)
  \o (IF vol.kind # "None" /\ NotNa(vol) THEN <<Line("volatility", "", vol)>> ELSE <<>>)

\* trend_group is None in the script until a series is computed; a computed
\* series has at least one row, so the empty sequence stands for None.
TrendAnalysis(df) ==
  LET cols == {df.columns[i] : i \in DOMAIN df.columns}
      ycol == pick_column(cols, YearCandidates)
      vcol == pick_column(cols, ValueCandidates)
      skipped == [year_col |-> ycol, value_col |-> vcol, trend_group |-> <<>>,
                  change_pct |-> NoneM, volatility |-> NoneM,
                  trend_direction |-> "", shown |-> <<>>]
  IN IF ycol # NoneCol /\ vcol # NoneCol
     THEN LET tdf == TrendDf(df, ycol, vcol)
          IN IF tdf # <<>>
             THEN LET tg == TrendGroup(tdf)
                      first_value == tg[1][2]
                      last_value == tg[Len(tg)][2]
                      cp == ChangePct(first_value, last_value)
                      vol == Volatility([i \in 1..Len(tg) |-> tg[i][2]])
                      dir == TrendDirection(first_value, last_value)
                  IN [year_col |-> ycol, value_col |-> vcol, trend_group |-> tg,
                      change_pct |-> cp, volatility |-> vol,
                      trend_direction |-> dir,
                      shown |-> TrendLines(dir, cp, vol)]
             ELSE [skipped EXCEPT !.shown = <<Line("warning", WarnNoNumeric, NoneM)>>]
     ELSE [skipped EXCEPT !.shown = <<Line("warning", WarnNotFound, NoneM)>>]

(***************************************************************************)
(* Policy Recommendations (app.py 454-473)                                 *)
(***************************************************************************)
RecGrowth == "Sustain growth by investing in productivity and market access."
RecDecline == "Investigate drivers of decline and apply targeted support or reforms."
RecStabilize == "Stabilize the sector with incremental improvements and risk monitoring."
RecCoverage == "Improve data coverage to enable trend-based decision-making."
RecBuffers == "High volatility suggests need for buffers, insurance, or price stabilization."
RecEfficiency == "Low volatility indicates stable conditions; focus on efficiency gains."

\* Mutant of ChangeRule: an undefined change is taken as 0 (change_pct or 0).
ChangeRuleNoneAsZero(cp) ==
  IF cp.kind = "None" THEN <<RecStabilize>>
  ELSE IF RatGt(cp, 5) THEN <<RecGrowth>>
  ELSE IF RatLt(cp, -5) THEN <<RecDecline>>
  ELSE <<RecStabilize>>

ChangeRule(cp) ==
  IF cp.kind # "None"
  THEN IF RatGt(cp, 5) THEN <<RecGrowth>>
       ELSE IF RatLt(cp, -5) THEN <<RecDecline>>
       ELSE <<RecStabilize>>
  ELSE <<RecCoverage>>

\* Mutant of VolatilityRule: the low threshold is 20 too (elif volatility < 20).
VolatilityRuleOneThreshold(vol) ==
  IF vol.kind # "None" /\ NotNa(vol)
  THEN IF VolAbove20(vol) THEN <<RecBuffers>> ELSE <<RecEfficiency>>
  ELSE <<>>

VolatilityRule(vol) ==
  IF vol.kind # "None" /\ NotNa(vol)
  THEN IF VolAbove20(vol) THEN <<RecBuffers>>
       ELSE IF VolBelow5(vol) THEN <<RecEfficiency>>
       ELSE <<>>
  ELSE <<>>

Recommendations(cp, vol) == ChangeRule(cp) \o VolatilityRule(vol)

(***************************************************************************)
(* Natural Language Q&A (app.py 475-502).  A question is the set of its    *)
(* words; `kw in q` is a substring test on the lower-cased text.           *)
(***************************************************************************)
\* str.lower() on the words of the vocabulary.
Lower(w) ==
  CASE w = "MAX" -> "max"
    [] w = "Trend" -> "trend"
    [] OTHER -> w

\* The words of the vocabulary that hold a keyword as a proper substring.
ProperSubstrings == {<<"minimum", "min">>}

\* kw in q
In(kw, q) == \E w \in q : w = kw \/ <<w, kw>> \in ProperSubstrings

DefaultAnswer == "I can summarize totals, averages, min/max, or trend if Year/Value exist."
NoAnswer == [kind |-> "", text |-> "", val |-> NoneM]
Ans(kind, text, val) == [kind |-> kind, text |-> text, val |-> val]

\* The numbers of a coerced series, NaN skipped (pandas' skipna).
Numbers(series) ==
  LET kept == SelectSeq(series, LAMBDA c : c.k = "num")
  IN [i \in 1..Len(kept) |-> kept[i].n]
RECURSIVE SeqSum(_)
SeqSum(ns) == IF ns = <<>> THEN 0 ELSE Head(ns) + SeqSum(Tail(ns))
SeriesSum(series) == Rat(SeqSum(Numbers(series)), 1)
SeriesMean(series) ==
  LET ns == Numbers(series)
  IN IF ns = <<>> THEN NaNM ELSE Rat(SeqSum(ns), Len(ns))
SeriesMax(series) ==
  LET ns == Numbers(series)
  IN IF ns = <<>> THEN NaNM
     ELSE Rat(CHOOSE x \in {ns[i] : i \in DOMAIN ns} :
                \A i \in DOMAIN ns : ns[i] <= x, 1)
SeriesMin(series) ==
  LET ns == Numbers(series)
  IN IF ns = <<>> THEN NaNM
     ELSE Rat(CHOOSE x \in {ns[i] : i \in DOMAIN ns} :
                \A i \in DOMAIN ns : ns[i] >= x, 1)

\* app.py 480-489: the value aggregates.
ValueAnswer(q, df, vcol, before) ==
  IF vcol # NoneCol
  THEN LET value_series == to_numeric(Column(df, vcol))
       IN IF In("average", q) \/ In("mean", q)
            THEN Ans("average", vcol, Fmt2f(SeriesMean(value_series)))
          ELSE IF In("total", q) \/ In("sum", q)
            THEN Ans("total", vcol, Fmt2f(SeriesSum(value_series)))
          ELSE IF In("max", q) \/ In("highest", q)
            THEN Ans("max", vcol, Fmt2f(SeriesMax(value_series)))
          ELSE IF In("min", q) \/ In("lowest", q)
            THEN Ans("min", vcol, Fmt2f(SeriesMin(value_series)))
          ELSE before
  ELSE before

\* direction = "increasing" if change_pct is None or change_pct >= 0 else "decreasing"
Direction(cp) ==
  IF cp.kind = "None" \/ ~RatLt(cp, 0) THEN "increasing" ELSE "decreasing"

\* The result of the Q&A block: the answer st.info shows, or the exception
\* that ends the script run.  f"{None:.1f}" raises TypeError, int(nan)
\* raises ValueError.
Answered(a) == [exc |-> "", answer |-> a]
Raised(e) == [exc |-> e, answer |-> NoAnswer]

\* app.py 495-500, entered with the answer so far.
YearAnswer(q, df, ycol, before) ==
  IF In("year", q) /\ ycol # NoneCol
  THEN LET year_series == to_numeric(Column(df, ycol))
       IN IF In("latest", q) \/ In("max", q)
            THEN IF SeriesMax(year_series).kind = "NaN" THEN Raised("ValueError")
                 ELSE Answered(Ans("latest", "", SeriesMax(year_series)))
          ELSE IF In("earliest", q) \/ In("min", q)
            THEN IF SeriesMin(year_series).kind = "NaN" THEN Raised("ValueError")
                 ELSE Answered(Ans("earliest", "", SeriesMin(year_series)))
          ELSE Answered(before)
  ELSE Answered(before)

\* app.py 491-493, then the year block.
TrendAnswer(q, df, ycol, tg, cp, before) ==
  IF In("trend", q) /\ tg # <<>>
  THEN IF cp.kind = "None" THEN Raised("TypeError")
       ELSE YearAnswer(q, df, ycol, Ans("trend", Direction(cp), Fmt1f(cp)))
  ELSE YearAnswer(q, df, ycol, before)

\* app.py 477-502 for a non-empty question.
QueryAnswer(quest, df, ycol, vcol, tg, cp) ==
  LET q == {Lower(w) : w \in quest}
  IN TrendAnswer(q, df, ycol, tg, cp,
                 ValueAnswer(q, df, vcol, Ans("default", DefaultAnswer, NoneM)))

(***************************************************************************)
(* Report (app.py 504-518)                                                 *)
(***************************************************************************)
ReportTrends(tg, cp) ==
  IF tg # <<>> /\ cp.kind # "None"
  THEN Line("report_change", "", Fmt1f(cp))
  ELSE Line("report_unavailable", "Trend analysis not available for this dataset.", NoneM)

\* The parts a specification leaves out stay as they are here.
UpIdle ==
  /\ pc = "off" /\ upload_df = <<>> /\ question = {} /\ year_col = NoneCol
  /\ value_col = NoneCol /\ trend_group = <<>> /\ change_pct = NoneM
  /\ volatility = NoneM /\ trend_direction = "" /\ shown = <<>>
  /\ recommendations = <<>> /\ answer = NoAnswer /\ exc = ""
FeIdle == selection = <<>> /\ cache = {} /\ session_state = <<>>
PkIdle ==
  /\ pk_pc = "off" /\ pk_columns = {} /\ pk_candidates = <<>>
  /\ pk_result = NoneCol

(***************************************************************************)
(* The script run over an uploaded file, section by section.               *)
(***************************************************************************)
\* ---- bounded inputs
MaxRows == 3
MaxRowsQA == 2
MaxWords == 2
YearCells == {Num(2000), Num(2001), Num(2002), Text}
ValueCells == {Num(-4), Num(0), Num(4), Num(5), Missing}
YearCellsQA == {Num(2000), Num(2001), Text}
ValueCellsQA == {Num(-4), Num(0), Num(4), Missing}
ResolvedHeader == <<"Year", "Value">>
UnresolvedHeaders == {<<"Years", "Value">>, <<"year", "Amount">>}
Vocabulary == {"average", "mean", "total", "sum", "max", "highest", "min",
               "lowest", "trend", "year", "latest", "earliest",
               "MAX", "Trend", "minimum", "hello"}

Frames(ycells, vcells, maxRows) ==
  UNION {[1..n -> ycells \X vcells] : n \in 0..maxRows}
\* Frames whose columns resolve, and frames where one does not.
Datasets(ycells, vcells, maxRows) ==
  {[columns |-> ResolvedHeader, rows |-> r] : r \in Frames(ycells, vcells, maxRows)}
  \cup {[columns |-> h, rows |-> r] :
          h \in UnresolvedHeaders, r \in Frames(ycells, vcells, 1)}
Questions == {w \in SUBSET Vocabulary : Cardinality(w) <= MaxWords}

UpStart ==
  /\ pc = "trend" /\ year_col = NoneCol /\ value_col = NoneCol
  /\ trend_group = <<>> /\ change_pct = NoneM /\ volatility = NoneM
  /\ trend_direction = "" /\ shown = <<>> /\ recommendations = <<>>
  /\ answer = NoAnswer /\ exc = ""

\* A file is uploaded and no question is typed.
Init ==
  /\ upload_df \in Datasets(YearCells, ValueCells, MaxRows)
  /\ question = {}
  /\ UpStart /\ PkIdle /\ FeIdle

\* A file is uploaded and a question is typed.
InitQA ==
  /\ upload_df \in Datasets(YearCellsQA, ValueCellsQA, MaxRowsQA)
  /\ question \in Questions \ {{}}
  /\ UpStart /\ PkIdle /\ FeIdle

RunTrendAnalysis ==
  /\ pc = "trend"
  /\ LET r == TrendAnalysis(upload_df)
     IN /\ year_col' = r.year_col
        /\ value_col' = r.value_col
        /\ trend_group' = r.trend_group
        /\ change_pct' = r.change_pct
        /\ volatility' = r.volatility
        /\ trend_direction' = r.trend_direction
        /\ shown' = r.shown
  /\ pc' = "recommend"
  /\ UNCHANGED <<upload_df, question, recommendations, answer, exc, pk_vars, fe_vars>>

RunRecommendations ==
  /\ pc = "recommend"
  /\ recommendations' = Recommendations(change_pct, volatility)
  /\ pc' = "qa"
  /\ UNCHANGED <<upload_df, question, year_col, value_col, trend_group, change_pct,
                 volatility, trend_direction, shown, answer, exc, pk_vars, fe_vars>>

\* `if question:` an empty question skips the block.
RunQandA ==
  /\ pc = "qa"
  /\ LET r == IF question = {} THEN Answered(NoAnswer)
              ELSE QueryAnswer(question, upload_df, year_col, value_col,
                               trend_group, change_pct)
     IN /\ answer' = r.answer
        /\ exc' = r.exc
        /\ pc' = IF r.exc = "" THEN "report" ELSE "raised"
  /\ UNCHANGED <<upload_df, question, year_col, value_col, trend_group, change_pct,
                 volatility, trend_direction, shown, recommendations, pk_vars, fe_vars>>

RunReport ==
  /\ pc = "report"
  /\ shown' = Append(shown, ReportTrends(trend_group, change_pct))
  /\ pc' = "done"
  /\ UNCHANGED <<upload_df, question, year_col, value_col, trend_group, change_pct,
                 volatility, trend_direction, recommendations, answer, exc,
                 pk_vars, fe_vars>>

Next == RunTrendAnalysis \/ RunRecommendations \/ RunQandA \/ RunReport
Spec == Init /\ [][Next]_vars
SpecQA == InitQA /\ [][Next]_vars

InitPick ==
  /\ pk_pc = "call"
  /\ pk_columns \in SUBSET ColumnNames
  /\ pk_candidates \in CandidateLists
  /\ pk_result = NoneCol
  /\ UpIdle /\ FeIdle

CallPickColumn ==
  /\ pk_pc = "call"
  /\ pk_result' = pick_column(pk_columns, pk_candidates)
  /\ pk_pc' = "returned"
  /\ UNCHANGED <<pk_columns, pk_candidates, up_vars, fe_vars>>

NextPick == CallPickColumn
SpecPick == InitPick /\ [][NextPick]_vars

(***************************************************************************)
(* Fetch Data (app.py 25-75, 82-137, 155-240).  The catalogue is cut down  *)
(* to the entries below; the codes are the script's.                       *)
(***************************************************************************)
DOMAINS == [Production |-> [code |-> "QCL", metrics |-> <<"Production", "Yield">>]]
COMMODITIES == [Crops |-> [Wheat |-> 15, Rice |-> 27]]
COUNTRIES == [Americas |-> [Chile |-> 45], Africa |-> [Ghana |-> 45]]
YearRange == <<2000, 2001>>

Range(seq) == {seq[i] : i \in DOMAIN seq}

\* What the sidebar widgets can hold (app.py 86-137).
Selections ==
  {[domain |-> d, metric |-> m, commodity_type |-> t, commodity |-> c,
    region |-> r, country |-> k, year_range |-> YearRange] :
     d \in DOMAIN DOMAINS, m \in Range(DOMAINS.Production.metrics),
     t \in DOMAIN COMMODITIES, c \in DOMAIN COMMODITIES.Crops,
     r \in DOMAIN COUNTRIES, k \in {"Chile", "Ghana"}}
ValidSelection(sel) ==
  /\ sel.metric \in Range(DOMAINS[sel.domain].metrics)
  /\ sel.commodity \in DOMAIN COMMODITIES[sel.commodity_type]
  /\ sel.country \in DOMAIN COUNTRIES[sel.region]

\* The body of fetch_faostat_data: the frame's label columns.  Country, Item
\* and Domain are read from the module-level selections, not from arguments.
GenerateFrame(sel, domain, metric, item_code, country_code, start_year, end_year) ==
  [Year |-> <<start_year, end_year>>, Country |-> sel.country,
   Item |-> sel.commodity, Domain |-> sel.domain, Metric |-> metric]

\* @st.cache_data: the key is the tuple of arguments.
CacheKey(domain, metric, item_code, country_code, start_year, end_year) ==
  <<domain, metric, item_code, country_code, start_year, end_year>>

NoFrame == [Year |-> <<0, 0>>, Country |-> "", Item |-> "", Domain |-> "", Metric |-> ""]
NoQuery == [metric |-> "", commodity |-> "", country |-> ""]
\* st.session_state: a key is present when its flag is set.
EmptySession == [has_data |-> FALSE, faostat_data |-> NoFrame,
                 has_query |-> FALSE, current_query |-> NoQuery]

InitFetch ==
  /\ selection = [domain |-> "Production", metric |-> "Production",
                  commodity_type |-> "Crops", commodity |-> "Wheat",
                  region |-> "Americas", country |-> "Chile",
                  year_range |-> YearRange]
  /\ cache = {}
  /\ session_state = EmptySession
  /\ PkIdle /\ UpIdle

\* A sidebar widget changes: the script reruns with the new selections.
Select ==
  /\ \E sel \in Selections :
       /\ ValidSelection(sel)
       /\ sel # selection
       /\ selection' = sel
  /\ UNCHANGED <<cache, session_state, pk_vars, up_vars>>

\* The Fetch Data button (app.py 216-240).
ClickFetch ==
  LET domain_code == DOMAINS[selection.domain].code
      item_code == COMMODITIES[selection.commodity_type][selection.commodity]
      country_code == COUNTRIES[selection.region][selection.country]
      key == CacheKey(domain_code, selection.metric, item_code, country_code,
                      selection.year_range[1], selection.year_range[2])
      hit == {e \in cache : e.key = key}
      df == IF hit # {} THEN (CHOOSE e \in hit : TRUE).value
            ELSE GenerateFrame(selection, domain_code, selection.metric, item_code,
                               country_code, selection.year_range[1],
                               selection.year_range[2])
  IN /\ cache' = IF hit # {} THEN cache ELSE cache \cup {[key |-> key, value |-> df]}
     /\ session_state' = [has_data |-> TRUE, faostat_data |-> df,
                          has_query |-> TRUE,
                          current_query |-> [metric |-> selection.metric,
                                             commodity |-> selection.commodity,
                                             country |-> selection.country]]
     /\ UNCHANGED <<selection, pk_vars, up_vars>>

NextFetch == Select \/ ClickFetch
SpecFetch == InitFetch /\ [][NextFetch]_vars

(***************************************************************************)
(* Properties                                                              *)
(***************************************************************************)
Analysed == pc \in {"recommend", "qa", "report", "done", "raised"}
Recommended == pc \in {"qa", "report", "done", "raised"}
Asked == pc \in {"report", "done", "raised"}

BothResolved == year_col # NoneCol /\ value_col # NoneCol
\* The rows of the upload whose year cell and value cell are both numbers.
YearCell(i) == upload_df.rows[i][ColIndex(upload_df, year_col)]
ValueCell(i) == upload_df.rows[i][ColIndex(upload_df, value_col)]
UsableRows ==
  {i \in DOMAIN upload_df.rows : YearCell(i).k = "num" /\ ValueCell(i).k = "num"}
RECURSIVE ValueTotal(_)
ValueTotal(S) ==
  IF S = {} THEN 0
  ELSE LET i == CHOOSE x \in S : TRUE IN ValueCell(i).n + ValueTotal(S \ {i})
Tags == {shown[i].tag : i \in DOMAIN shown}

\* C1: with both columns resolved, the trend series has exactly one entry per
\* distinct numeric year of a row whose year and value are both numeric, the
\* entry's value is the sum of the values of those rows, other rows contribute
\* nothing, and the years are strictly ascending.
C1_TrendSeriesIsSumPerYear ==
  (Analysed /\ BothResolved) =>
    LET years == {YearCell(i).n : i \in UsableRows}
    IN /\ Len(trend_group) = Cardinality(years)
       /\ \A j \in DOMAIN trend_group :
            /\ trend_group[j][1] \in years
            /\ trend_group[j][2] =
                 ValueTotal({i \in UsableRows : YearCell(i).n = trend_group[j][1]})
       /\ \A j \in 1..(Len(trend_group) - 1) :
            trend_group[j][1] < trend_group[j + 1][1]

\* Years [2001,2000,2000] with values [4,4,5] give [(2000,9),(2001,4)].
C1_Witness ==
  /\ pc = "done"
  /\ upload_df.rows = <<<<Num(2001), Num(4)>>, <<Num(2000), Num(4)>>,
                        <<Num(2000), Num(5)>>>>
  /\ trend_group = <<<<2000, 9>>, <<2001, 4>>>>

\* C2: with a trend series whose first aggregate is 0, change_pct is None,
\* no overall-change line is printed, the recommendations start with the
\* coverage fallback and the report shows the placeholder; with a non-zero
\* first aggregate change_pct is (last - first) / first * 100.
C2_ZeroFirstValueGivesNoChange ==
  (pc = "done" /\ trend_group # <<>>) =>
    LET first == trend_group[1][2]
        last == trend_group[Len(trend_group)][2]
    IN /\ first = 0 =>
            /\ change_pct.kind = "None"
            /\ "overall_change" \notin Tags
            /\ "report_change" \notin Tags
            /\ shown[Len(shown)].tag = "report_unavailable"
            /\ recommendations[1] = RecCoverage
       /\ first # 0 =>
            /\ change_pct.kind = "Num"
            /\ change_pct.den > 0
            /\ change_pct.num * first = (last - first) * 100 * change_pct.den

C2_Witness ==
  /\ pc = "done"
  /\ Len(trend_group) >= 2
  /\ trend_group[1][2] = 0
  /\ trend_group[Len(trend_group)][2] # 0
  /\ change_pct.kind = "None"

\* C3: the recommendation list has 1 or 2 entries; the first is the growth,
\* decline, stabilization or coverage entry chosen by change_pct; a second
\* exists exactly when the volatility is a number above 20 (buffers) or below
\* 5 (efficiency), and nothing else decides the list.
C3_RecommendationRules ==
  Recommended =>
    LET cp == change_pct
        vol == volatility
        high == vol.kind = "Num" /\ 25 * vol.num > vol.den
        low == vol.kind = "Num" /\ 400 * vol.num < vol.den
    IN /\ Len(recommendations) \in {1, 2}
       /\ recommendations[1] =
            (IF cp.kind = "None" THEN RecCoverage
             ELSE IF cp.num > 5 * cp.den THEN RecGrowth
             ELSE IF cp.num < (-5) * cp.den THEN RecDecline
             ELSE RecStabilize)
       /\ Len(recommendations) = 2 <=> (high \/ low)
       /\ high => recommendations[2] = RecBuffers
       /\ low => recommendations[2] = RecEfficiency

\* A growing series with a volatility between 5 and 20: one entry only.
C3_Witness ==
  /\ pc = "done"
  /\ volatility.kind = "Num"
  /\ 25 * volatility.num <= volatility.den
  /\ 400 * volatility.num >= volatility.den
  /\ recommendations = <<RecGrowth>>

\* C4: when a column is unresolved or every row is dropped by the coercion,
\* there is no series, change_pct and volatility are None, the list is the
\* coverage fallback alone, and each cause has its own warning.
C4_NoSeriesFallback ==
  (pc = "done" /\ (~BothResolved \/ UsableRows = {})) =>
    /\ trend_group = <<>>
    /\ change_pct.kind = "None"
    /\ volatility.kind = "None"
    /\ recommendations = <<RecCoverage>>
    /\ shown[1].tag = "warning"
    /\ shown[1].text = (IF BothResolved THEN WarnNoNumeric ELSE WarnNotFound)
    /\ WarnNoNumeric # WarnNotFound

C4_Witness ==
  /\ pc = "done"
  /\ BothResolved
  /\ Len(upload_df.rows) >= 2
  /\ UsableRows = {}
  /\ recommendations = <<RecCoverage>>

\* C5 as written: volatility is undefined for a series of length 1 and a
\* number for every series of length 2 or more.
C5_Original ==
  (Analysed /\ trend_group # <<>>) =>
    /\ Len(trend_group) = 1 => volatility.kind # "Num"
    /\ Len(trend_group) >= 2 => volatility.kind = "Num"

\* C5 amended: volatility is NaN for a series of length 1 or 2, and a number
\* for a series of length 3 or more whose aggregates before the last are all
\* non-zero; the volatility line is printed exactly when it is a number.
C5_VolatilityNeedsThreePoints ==
  (pc = "done" /\ trend_group # <<>>) =>
    /\ Len(trend_group) <= 2 => volatility.kind = "NaN"
    /\ (Len(trend_group) >= 3
         /\ \A i \in 1..(Len(trend_group) - 1) : trend_group[i][2] # 0) =>
          /\ volatility.kind = "Num"
          /\ volatility.num >= 0
          /\ volatility.den > 0
    /\ "volatility" \in Tags <=> volatility.kind = "Num"

C5_Witness ==
  /\ pc = "done"
  /\ Len(trend_group) = 3
  /\ volatility.kind = "Num"
  /\ "volatility" \in Tags

\* The rule the question and the analysis make the last applicable one.
LoweredQuestion == {Lower(w) : w \in question}
ExpectedValueKind ==
  LET q == LoweredQuestion
  IN IF value_col = NoneCol THEN ""
     ELSE IF In("average", q) \/ In("mean", q) THEN "average"
     ELSE IF In("total", q) \/ In("sum", q) THEN "total"
     ELSE IF In("max", q) \/ In("highest", q) THEN "max"
     ELSE IF In("min", q) \/ In("lowest", q) THEN "min"
     ELSE ""
ExpectedYearKind ==
  LET q == LoweredQuestion
  IN IF ~In("year", q) \/ year_col = NoneCol THEN ""
     ELSE IF In("latest", q) \/ In("max", q) THEN "latest"
     ELSE IF In("earliest", q) \/ In("min", q) THEN "earliest"
     ELSE ""
ExpectedKind ==
  IF ExpectedYearKind # "" THEN ExpectedYearKind
  ELSE IF In("trend", LoweredQuestion) /\ trend_group # <<>> THEN "trend"
  ELSE IF ExpectedValueKind # "" THEN ExpectedValueKind
  ELSE "default"

\* C6: the answer to a question is the answer of the last applicable rule in
\* the order default, value aggregate, trend, year bound.
C6_LastApplicableRuleWins ==
  (Asked /\ question # {}) => answer.kind = ExpectedKind

\* When the block does answer, the answer is the last applicable rule's.
PrecedenceWhenAnswered ==
  (Asked /\ question # {} /\ exc = "") => answer.kind = ExpectedKind

\* C7: for every non-empty question the Q&A block gives an answer and never
\* raises.
C7_NeverRaises ==
  (Asked /\ question # {}) => (exc = "" /\ pc # "raised" /\ answer.kind # "")

\* C9: when change_pct is defined, the direction printed by the trend
\* analysis and the direction of the answer to a trend question agree.
C9_DirectionsAgree ==
  (Asked /\ In("trend", LoweredQuestion) /\ trend_group # <<>>
     /\ change_pct.kind = "Num") =>
    /\ answer.kind = "trend" => answer.text = trend_direction
    /\ Direction(change_pct) = trend_direction

\* C8: pick_column returns the earliest candidate that is exactly a column
\* name, and None when there is none; "Year" wins over "year", and "Years"
\* or "yEAR" alone resolve to None.
C8_PickColumnFirstExactMatch ==
  pk_pc = "returned" =>
    LET hits == {i \in DOMAIN pk_candidates : pk_candidates[i] \in pk_columns}
    IN /\ hits = {} <=> pk_result = NoneCol
       /\ hits # {} =>
            \E i \in hits : /\ pk_result = pk_candidates[i]
                            /\ \A j \in hits : i <= j
       /\ (pk_candidates = YearCandidates /\ {"Year", "year"} \subseteq pk_columns)
            => pk_result = "Year"
       /\ (pk_candidates = YearCandidates /\ pk_columns \subseteq {"Years", "yEAR", "Value"})
            => pk_result = NoneCol

C8_Witness ==
  /\ pk_pc = "returned"
  /\ pk_candidates = YearCandidates
  /\ pk_columns = {"year", "YEAR", "Years", "yEAR"}
  /\ pk_result = "year"

\* C10: the stored dataset carries the country, commodity and metric of the
\* stored query, and is stored only together with a query.
C10_DatasetMatchesQuery ==
  /\ session_state.has_data => session_state.has_query
  /\ session_state.has_data =>
       /\ session_state.faostat_data.Country = session_state.current_query.country
       /\ session_state.faostat_data.Item = session_state.current_query.commodity
       /\ session_state.faostat_data.Metric = session_state.current_query.metric

====
